---- MODULE Spec2Model ----
(***************************************************************************)
(* Model of the what-to-watch REST backend:                                *)
(*   - UserEntity / UserService (user.entity.ts, user.service)             *)
(*   - Controller.addRoute and the MovieController route table + handlers  *)
(* UserSpec is the specification of the user service, Spec the one of the  *)
(* movie controller's request pipeline.                                    *)
(***************************************************************************)
EXTENDS Integers, Sequences, FiniteSets, TLC

VARIABLES
    users,      \* the 'users' collection: a set of persisted user documents
    ucalls,     \* UserService calls in flight / completed, by call number
    movies,     \* the movie collection: movie id -> owning user, or NoMovie
    nextMovieId,\* next fresh movie id the store hands out
    comments,   \* the comment collection, in insertion order
    toWatch,    \* per user: the to-watch list
    reqs,       \* HTTP requests of MovieController's router, by slot
    dispatched  \* number of requests dispatched so far

uvars == <<users, ucalls>>
cvars == <<movies, nextMovieId, comments, toWatch, reqs, dispatched>>
vars == <<users, ucalls, movies, nextMovieId, comments, toWatch, reqs, dispatched>>

(***************************************************************************)
(* Bounds                                                                  *)
(***************************************************************************)
MaxCalls == 2
MaxRequests == 2

CallIds == 1..MaxCalls

(***************************************************************************)
(* User entity                                                             *)
(***************************************************************************)
MinPasswordLength == 6
MaxPasswordLength == 12
MinNameLength == 1
MaxNameLength == 15

Emails == {"keks@htmlacademy.ru", "torans@overlook.net"}
Names == {"", "Keks"}
Passwords == {"12345", "123456", "123456789012", "1234567890123"}
Salt == "secret"
Dtos == [email : Emails, avatarUri : {"keks.jpg"}, name : Names, password : Passwords]

NoUser == [id |-> 0, email |-> "", avatarUri |-> "", name |-> "", password |-> ""]

\* utils/common createSHA256: a keyed digest; distinct (line, salt) pairs give
\* distinct digests, and a digest is longer than any accepted password.
createSHA256(line, salt) == "sha256(" \o line \o "," \o salt \o ")"

\* new UserEntity(data)
UserEntity(data) ==
    [id |-> 0, email |-> data.email, avatarUri |-> data.avatarUri,
     name |-> data.name, password |-> data.password]

\* setPassword without the upper length bound
setPassword_NoUpperBound(user, password, salt) ==
    IF Len(password) < MinPasswordLength
    THEN [ok |-> FALSE, user |-> user]
    ELSE [ok |-> TRUE, user |-> [user EXCEPT !.password = createSHA256(password, salt)]]

\* setPassword that checks the length but keeps the raw password
setPassword_KeepsRaw(user, password, salt) ==
    IF Len(password) < MinPasswordLength \/ Len(password) > MaxPasswordLength
    THEN [ok |-> FALSE, user |-> user]
    ELSE [ok |-> TRUE, user |-> [user EXCEPT !.password = password]]

\* UserEntity.setPassword: ok = FALSE stands for the thrown Error
setPassword(user, password, salt) ==
    IF Len(password) < MinPasswordLength \/ Len(password) > MaxPasswordLength
    THEN [ok |-> FALSE, user |-> user]
    ELSE [ok |-> TRUE, user |-> [user EXCEPT !.password = createSHA256(password, salt)]]

\* schema validators of the @prop declarations run by userModel.create
SchemaValid(user) ==
    /\ user.email # ""
    /\ user.name # ""
    /\ Len(user.name) >= MinNameLength
    /\ Len(user.name) <= MaxNameLength
    /\ user.password # ""

\* unique: true on email
EmailTaken(store, email) == \E u \in store : u.email = email

NextUserId(store) == Cardinality(store) + 1

(***************************************************************************)
(* UserService                                                             *)
(***************************************************************************)
\* a lookup that never matches
findByEmail_NeverFinds(store, email) == NoUser

\* userModel.findOne({email})
findByEmail(store, email) ==
    IF \E u \in store : u.email = email
    THEN CHOOSE u \in store : u.email = email
    ELSE NoUser

\* UserService.create as a function of the store: the entity is built, the
\* password set, and the document inserted; any throw leaves the store as is.
create(store, dto, salt) ==
    LET user == UserEntity(dto)
        sp == setPassword(user, dto.password, salt)
        doc == [sp.user EXCEPT !.id = NextUserId(store)]
    IN  IF ~sp.ok
        THEN [store |-> store, outcome |-> "error", err |-> "password", user |-> NoUser]
        ELSE IF ~SchemaValid(sp.user)
        THEN [store |-> store, outcome |-> "error", err |-> "validation", user |-> NoUser]
        ELSE IF EmailTaken(store, sp.user.email)
        THEN [store |-> store, outcome |-> "error", err |-> "duplicate", user |-> NoUser]
        ELSE [store |-> store \cup {doc}, outcome |-> "created", err |-> "", user |-> doc]

IdleCall ==
    [op |-> "none", pc |-> "idle", dto |-> UserEntity(NoUser), salt |-> "",
     outcome |-> "none", err |-> "", user |-> NoUser, prior |-> {}]

DoneCalls == {c \in CallIds : ucalls[c].pc = "done"}

\* a store left by an earlier successful create
StoredKeks ==
    [id |-> 1, email |-> "keks@htmlacademy.ru", avatarUri |-> "keks.jpg",
     name |-> "Keks", password |-> createSHA256("123456", Salt)]

InitialStores == {{}, {StoredKeks}}


\* a caller invokes UserService.create(dto, salt)
Create(c, dto) ==
    /\ ucalls[c].pc = "idle"
    /\ LET r == create(users, dto, Salt)
       IN  /\ users' = r.store
           /\ ucalls' = [ucalls EXCEPT ![c] =
                 [op |-> "create", pc |-> "done", dto |-> dto, salt |-> Salt,
                  outcome |-> r.outcome, err |-> r.err, user |-> r.user,
                  prior |-> DoneCalls]]
    /\ UNCHANGED cvars

\* a caller invokes UserService.findOrCreate(dto, salt): the awaited lookup
FindOrCreateLookup(c, dto) ==
    /\ ucalls[c].pc = "idle"
    /\ LET existedUser == findByEmail(users, dto.email)
       IN  ucalls' = [ucalls EXCEPT ![c] =
              IF existedUser # NoUser
              THEN [op |-> "findOrCreate", pc |-> "done", dto |-> dto, salt |-> Salt,
                    outcome |-> "found", err |-> "", user |-> existedUser,
                    prior |-> DoneCalls]
              ELSE [op |-> "findOrCreate", pc |-> "create", dto |-> dto, salt |-> Salt,
                    outcome |-> "none", err |-> "", user |-> NoUser,
                    prior |-> DoneCalls]]
    /\ UNCHANGED users
    /\ UNCHANGED cvars

\* findOrCreate resumes after the lookup found nothing: return this.create(dto, salt)
FindOrCreateCreate(c) ==
    /\ ucalls[c].pc = "create"
    /\ LET r == create(users, ucalls[c].dto, ucalls[c].salt)
       IN  /\ users' = r.store
           /\ ucalls' = [ucalls EXCEPT ![c].pc = "done", ![c].outcome = r.outcome,
                                       ![c].err = r.err, ![c].user = r.user]
    /\ UNCHANGED cvars

UserNext ==
    \/ \E c \in CallIds, dto \in Dtos : Create(c, dto)
    \/ \E c \in CallIds, dto \in Dtos : FindOrCreateLookup(c, dto)
    \/ \E c \in CallIds : FindOrCreateCreate(c)

(***************************************************************************)
(* Controller.addRoute and the MovieController route table                 *)
(***************************************************************************)
MovieIds == {1, 2}
UserIds == {1}
OtherAccount == 2
Anonymous == 0
NoMovie == 0
PROMO_MOVIE_ID == 1
ReqIds == 1..MaxRequests

OK == 200
CREATED == 201
NO_CONTENT == 204
BAD_REQUEST == 400
UNAUTHORIZED == 401
NOT_FOUND == 404

\* the route table of MovieController's constructor, in registration order
Routes ==
    <<[path |-> "/", method |-> "get", handler |-> "getAll", middlewares |-> <<>>],
      [path |-> "/", method |-> "post", handler |-> "create",
       middlewares |-> <<"authorizationMiddleware", "validateCreateMovieDtoMiddleware">>],
      [path |-> "/promo", method |-> "get", handler |-> "getPromo", middlewares |-> <<>>],
      [path |-> "/to-watch", method |-> "get", handler |-> "getToWatchList",
       middlewares |-> <<"authorizationMiddleware">>],
      [path |-> "/to-watch", method |-> "post", handler |-> "addToToWatchList",
       middlewares |-> <<"authorizationMiddleware", "validateAddToToWatchDtoMiddleware">>],
      [path |-> "/to-watch", method |-> "delete", handler |-> "deleteFromToWatchList",
       middlewares |-> <<"authorizationMiddleware", "validateDeleteFromToWatchDtoMiddleware">>],
      [path |-> "/:id/comments", method |-> "get", handler |-> "getComments",
       middlewares |-> <<"validateObjectIdMiddleware", "movieExistsMiddleware">>],
      [path |-> "/:id/comments", method |-> "post", handler |-> "createComment",
       middlewares |-> <<"authorizationMiddleware", "validateObjectIdMiddleware",
                         "validateCommentDtoMiddleware", "movieExistsMiddleware">>],
      [path |-> "/:id", method |-> "get", handler |-> "getById",
       middlewares |-> <<"validateObjectIdMiddleware", "movieExistsMiddleware">>],
      [path |-> "/:id", method |-> "put", handler |-> "update",
       middlewares |-> <<"authorizationMiddleware", "validateObjectIdMiddleware",
                         "validateUpdateMovieDtoMiddleware", "movieExistsMiddleware">>],
      [path |-> "/:id", method |-> "delete", handler |-> "deleteById",
       middlewares |-> <<"authorizationMiddleware", "validateObjectIdMiddleware",
                         "movieExistsMiddleware">>]>>

RouteIds == 1..Len(Routes)
Handlers == {Routes[i].handler : i \in RouteIds}

ValidateDtoMiddlewares ==
    {"validateCommentDtoMiddleware", "validateCreateMovieDtoMiddleware",
     "validateUpdateMovieDtoMiddleware", "validateAddToToWatchDtoMiddleware",
     "validateDeleteFromToWatchDtoMiddleware"}

Contains(seq, x) == \E i \in 1..Len(seq) : seq[i] = x

\* the handler registered ahead of the route's middlewares
addRoute_HandlerFirst(route) == <<route.handler>> \o route.middlewares

\* Controller.addRoute: router[method](path, ...middlewares, routeHandler), or
\* router[method](path, routeHandler) for a route without middlewares
addRoute(route) ==
    IF route.middlewares # <<>>
    THEN route.middlewares \o <<route.handler>>
    ELSE <<route.handler>>

\* what a request carries, per route: bearer user, :id or body.movieId
\* (0 is a malformed object id), whether the body passes its DTO
UsesParamId(i) == Contains(Routes[i].middlewares, "validateObjectIdMiddleware")
ObjectIds == {0} \cup MovieIds
ParamIds(i) == IF UsesParamId(i) THEN ObjectIds ELSE {0}

\* the request as a middleware finds it: each part of the request is drawn
\* when the first middleware or handler reads it
Reads(mw, q) ==
    IF mw = "authorizationMiddleware"
    THEN {[q EXCEPT !.user = u] : u \in UserIds \cup {Anonymous}}
    ELSE IF mw \in {"validateAddToToWatchDtoMiddleware", "validateDeleteFromToWatchDtoMiddleware"}
    THEN {[q EXCEPT !.id = m, !.dtoValid = (m # 0)] : m \in ObjectIds}
    ELSE IF mw \in ValidateDtoMiddlewares
    THEN {[q EXCEPT !.dtoValid = v] : v \in BOOLEAN}
    ELSE {q}

IdleReq ==
    [pc |-> "idle", route |-> 0, user |-> Anonymous, id |-> 0, dtoValid |-> TRUE,
     ran |-> <<>>, failed |-> "", found |-> "unset",
     calls |-> <<>>, status |-> 0, component |-> ""]

\* the stack express runs for the request, and its next element
Stack(q) == addRoute(Routes[q.route])
NextInStack(q) == Stack(q)[Len(q.ran) + 1]

(***************************************************************************)
(* Services behind the controller                                          *)
(***************************************************************************)
\* movieService.exists / findById
exists(store, id) == id \in DOMAIN store /\ store[id] # NoMovie

\* movieService.update(id, userId, body): null unless the owner's movie
updateFinds(store, id, userId) == exists(store, id) /\ store[id] = userId

\* movieService.deleteById
deleteMovie(store, id) ==
    IF id \in DOMAIN store THEN [store EXCEPT ![id] = NoMovie] ELSE store

\* the list appended to without a membership test
addToToWatch_Append(list, movieId) == Append(list, movieId)

\* toWatchService.addToToWatch on one user's list
addToToWatch(list, movieId) ==
    IF Contains(list, movieId) THEN list ELSE Append(list, movieId)

\* toWatchService.deleteFromToWatch on one user's list
deleteFromToWatch(list, movieId) == SelectSeq(list, LAMBDA m : m # movieId)

(***************************************************************************)
(* Middlewares                                                             *)
(***************************************************************************)
\* middleware.execute: "" when it calls next(), else the error it raises
Execute(mw, q) ==
    IF mw = "authorizationMiddleware"
    THEN IF q.user # Anonymous THEN [status |-> 0, component |-> ""]
         ELSE [status |-> UNAUTHORIZED, component |-> "AuthorizeMiddleware"]
    ELSE IF mw = "validateObjectIdMiddleware"
    THEN IF q.id # 0 THEN [status |-> 0, component |-> ""]
         ELSE [status |-> BAD_REQUEST, component |-> "ValidateObjectIdMiddleware"]
    ELSE IF mw \in ValidateDtoMiddlewares
    THEN IF q.dtoValid THEN [status |-> 0, component |-> ""]
         ELSE [status |-> BAD_REQUEST, component |-> "ValidateDtoMiddleware"]
    ELSE IF exists(movies, q.id) THEN [status |-> 0, component |-> ""]
         ELSE [status |-> NOT_FOUND, component |-> "DocumentExistsMiddleware"]

(***************************************************************************)
(* Request pipeline                                                        *)
(***************************************************************************)
\* the catalog and lists earlier requests have left: movie 1 created by
\* another account, user 1's list holding one id
StoredIds == 1..(1 + MaxRequests)

InitialCatalogs ==
    {[m \in StoredIds |-> IF m = 1 THEN OtherAccount ELSE NoMovie]}

InitialToWatch == {[u \in UserIds |-> <<2>>]}

\* MovieController constructed, no request received, no user service call made
Init ==
    /\ movies \in InitialCatalogs
    /\ nextMovieId = 2
    /\ comments = <<>>
    /\ toWatch \in InitialToWatch
    /\ reqs = [r \in ReqIds |-> IdleReq]
    /\ dispatched = 0
    /\ users = {}
    /\ ucalls = [c \in CallIds |-> IdleCall]

\* UserService constructed over a users collection, the controller at rest
UserInit ==
    /\ users \in InitialStores
    /\ ucalls = [c \in CallIds |-> IdleCall]
    /\ movies = [m \in StoredIds |-> NoMovie]
    /\ nextMovieId = 2
    /\ comments = <<>>
    /\ toWatch = [u \in UserIds |-> <<>>]
    /\ reqs = [r \in ReqIds |-> IdleReq]
    /\ dispatched = 0

\* reqs keeps the requests in flight and the one answered last: the record of
\* an answered request goes with the next step of the pipeline
Retire(rs) == [r \in ReqIds |-> IF rs[r].pc = "done" THEN IdleReq ELSE rs[r]]

\* the router dispatches an incoming request to its route
Dispatch(i, id) ==
    /\ dispatched < MaxRequests
    /\ dispatched' = dispatched + 1
    /\ reqs' = [Retire(reqs) EXCEPT ![dispatched + 1] =
          [IdleReq EXCEPT !.pc = "stack", !.route = i, !.id = id]]
    /\ UNCHANGED <<movies, nextMovieId, comments, toWatch>>
    /\ UNCHANGED uvars

Running(r, h) ==
    /\ reqs[r].pc = "stack"
    /\ NextInStack(reqs[r]) = h

\* the response a handler ends the request with
Respond(r, service, status, component) ==
    reqs' = [Retire(reqs) EXCEPT
                ![r].pc = "done",
                ![r].ran = IF reqs[r].pc = "stack"
                           THEN Append(@, Routes[reqs[r].route].handler) ELSE @,
                ![r].calls = Append(@, service),
                ![r].status = status,
                ![r].component = component]

\* a middleware whose error is dropped: the stack goes on
AfterMiddleware_CallsThrough(q, mw, e) ==
    IF Len(q.ran) + 1 < Len(Stack(q))
    THEN [q EXCEPT !.ran = Append(@, mw)]
    ELSE [q EXCEPT !.ran = Append(@, mw), !.pc = "done"]

\* asyncHandler(middleware.execute): next() moves on to the next element of
\* the stack, a rejection goes to next(err), which skips the rest of it
AfterMiddleware(q, mw, e) ==
    IF e.status = 0
    THEN IF Len(q.ran) + 1 < Len(Stack(q))
         THEN [q EXCEPT !.ran = Append(@, mw)]
         ELSE [q EXCEPT !.ran = Append(@, mw), !.pc = "done"]
    ELSE [q EXCEPT !.ran = Append(@, mw), !.pc = "done", !.failed = mw,
                   !.status = e.status, !.component = e.component]

\* the next middleware of the request's stack runs
RunMiddleware(r) ==
    /\ reqs[r].pc = "stack"
    /\ NextInStack(reqs[r]) \notin Handlers
    /\ \E in \in Reads(NextInStack(reqs[r]), reqs[r]) :
         LET mw == NextInStack(reqs[r])
             e == Execute(mw, in)
             q == [in EXCEPT !.found = IF mw = "movieExistsMiddleware"
                                       THEN (IF e.status = 0 THEN "yes" ELSE "no")
                                       ELSE @]
         IN  reqs' = [Retire(reqs) EXCEPT ![r] = AfterMiddleware(q, mw, e)]
    /\ UNCHANGED <<movies, nextMovieId, comments, toWatch, dispatched>>
    /\ UNCHANGED uvars

getAll(r) ==
    /\ Running(r, "getAll")
    /\ \E genre \in BOOLEAN :
         Respond(r, IF genre THEN "movieService.findByGenre" ELSE "movieService.getAll",
                 OK, "")
    /\ UNCHANGED <<movies, nextMovieId, comments, toWatch, dispatched>>
    /\ UNCHANGED uvars

\* getById answering 200 whatever findById returned
getById_AlwaysOk(r) ==
    /\ Running(r, "getById")
    /\ Respond(r, "movieService.findById", OK, "")
    /\ UNCHANGED <<movies, nextMovieId, comments, toWatch, dispatched>>
    /\ UNCHANGED uvars

getById(r) ==
    /\ Running(r, "getById")
    /\ IF exists(movies, reqs[r].id)
       THEN Respond(r, "movieService.findById", OK, "")
       ELSE Respond(r, "movieService.findById", NOT_FOUND, "MovieController")
    /\ UNCHANGED <<movies, nextMovieId, comments, toWatch, dispatched>>
    /\ UNCHANGED uvars

getPromo(r) ==
    /\ Running(r, "getPromo")
    /\ IF exists(movies, PROMO_MOVIE_ID)
       THEN Respond(r, "movieService.findById", OK, "")
       ELSE Respond(r, "movieService.findById", NOT_FOUND, "MovieController")
    /\ UNCHANGED <<movies, nextMovieId, comments, toWatch, dispatched>>
    /\ UNCHANGED uvars

createMovie(r) ==
    /\ Running(r, "create")
    /\ movies' = [movies EXCEPT ![nextMovieId] = reqs[r].user]
    /\ nextMovieId' = nextMovieId + 1
    /\ Respond(r, "movieService.create", CREATED, "")
    /\ UNCHANGED <<comments, toWatch, dispatched>>
    /\ UNCHANGED uvars

\* update looking the movie up itself before it calls movieService.update
update_FindsFirst(r) ==
    /\ Running(r, "update")
    /\ reqs' = [Retire(reqs) EXCEPT
                   ![r].pc = "done",
                   ![r].ran = Append(@, "update"),
                   ![r].calls = <<"movieService.findById", "movieService.update">>,
                   ![r].status = IF updateFinds(movies, reqs[r].id, reqs[r].user)
                                 THEN CREATED ELSE NOT_FOUND,
                   ![r].component = IF updateFinds(movies, reqs[r].id, reqs[r].user)
                                    THEN "" ELSE "MovieController"]
    /\ UNCHANGED <<movies, nextMovieId, comments, toWatch, dispatched>>
    /\ UNCHANGED uvars

update(r) ==
    /\ Running(r, "update")
    /\ IF updateFinds(movies, reqs[r].id, reqs[r].user)
       THEN Respond(r, "movieService.update", CREATED, "")
       ELSE Respond(r, "movieService.update", NOT_FOUND, "MovieController")
    /\ UNCHANGED <<movies, nextMovieId, comments, toWatch, dispatched>>
    /\ UNCHANGED uvars

deleteById(r) ==
    /\ Running(r, "deleteById")
    /\ movies' = deleteMovie(movies, reqs[r].id)
    /\ Respond(r, "movieService.deleteById", NO_CONTENT, "")
    /\ UNCHANGED <<nextMovieId, comments, toWatch, dispatched>>
    /\ UNCHANGED uvars

getToWatchList(r) ==
    /\ Running(r, "getToWatchList")
    /\ Respond(r, "toWatchService.getToWatch", OK, "")
    /\ UNCHANGED <<movies, nextMovieId, comments, toWatch, dispatched>>
    /\ UNCHANGED uvars

\* addToToWatchList up to its first await: movieService.exists
addToToWatchList_exists(r) ==
    /\ Running(r, "addToToWatchList")
    /\ IF exists(movies, reqs[r].id)
       THEN reqs' = [Retire(reqs) EXCEPT ![r].pc = "done",
                                         ![r].ran = Append(@, "addToToWatchList"),
                                         ![r].calls = Append(@, "movieService.exists"),
                                         ![r].found = "yes",
                                         ![r].status = NOT_FOUND,
                                         ![r].component = "MovieController"]
       ELSE reqs' = [Retire(reqs) EXCEPT ![r].pc = "toWatch",
                                         ![r].ran = Append(@, "addToToWatchList"),
                                         ![r].calls = Append(@, "movieService.exists"),
                                         ![r].found = "no"]
    /\ UNCHANGED <<movies, nextMovieId, comments, toWatch, dispatched>>
    /\ UNCHANGED uvars

\* addToToWatchList after it: toWatchService.addToToWatch, then noContent
addToToWatchList_add(r) ==
    /\ reqs[r].pc = "toWatch"
    /\ Routes[reqs[r].route].handler = "addToToWatchList"
    /\ toWatch' = [toWatch EXCEPT ![reqs[r].user] = addToToWatch(@, reqs[r].id)]
    /\ Respond(r, "toWatchService.addToToWatch", NO_CONTENT, "")
    /\ UNCHANGED <<movies, nextMovieId, comments, dispatched>>
    /\ UNCHANGED uvars

\* deleteFromToWatchList up to its first await: movieService.exists
deleteFromToWatchList_exists(r) ==
    /\ Running(r, "deleteFromToWatchList")
    /\ IF exists(movies, reqs[r].id)
       THEN reqs' = [Retire(reqs) EXCEPT ![r].pc = "done",
                                         ![r].ran = Append(@, "deleteFromToWatchList"),
                                         ![r].calls = Append(@, "movieService.exists"),
                                         ![r].found = "yes",
                                         ![r].status = NOT_FOUND,
                                         ![r].component = "MovieController"]
       ELSE reqs' = [Retire(reqs) EXCEPT ![r].pc = "toWatch",
                                         ![r].ran = Append(@, "deleteFromToWatchList"),
                                         ![r].calls = Append(@, "movieService.exists"),
                                         ![r].found = "no"]
    /\ UNCHANGED <<movies, nextMovieId, comments, toWatch, dispatched>>
    /\ UNCHANGED uvars

\* deleteFromToWatchList after it: toWatchService.deleteFromToWatch, then noContent
deleteFromToWatchList_delete(r) ==
    /\ reqs[r].pc = "toWatch"
    /\ Routes[reqs[r].route].handler = "deleteFromToWatchList"
    /\ toWatch' = [toWatch EXCEPT ![reqs[r].user] = deleteFromToWatch(@, reqs[r].id)]
    /\ Respond(r, "toWatchService.deleteFromToWatch", NO_CONTENT, "")
    /\ UNCHANGED <<movies, nextMovieId, comments, dispatched>>
    /\ UNCHANGED uvars

getComments(r) ==
    /\ Running(r, "getComments")
    /\ Respond(r, "commentService.findByMovieId", OK, "")
    /\ UNCHANGED <<movies, nextMovieId, comments, toWatch, dispatched>>
    /\ UNCHANGED uvars

createComment(r) ==
    /\ Running(r, "createComment")
    /\ comments' = Append(comments, [movieId |-> reqs[r].id, userId |-> reqs[r].user])
    /\ Respond(r, "commentService.create", CREATED, "")
    /\ UNCHANGED <<movies, nextMovieId, toWatch, dispatched>>
    /\ UNCHANGED uvars

Next ==
    \/ \E i \in RouteIds : \E id \in ParamIds(i) : Dispatch(i, id)
    \/ \E r \in ReqIds : RunMiddleware(r)
    \/ \E r \in ReqIds : getAll(r)
    \/ \E r \in ReqIds : getById(r)
    \/ \E r \in ReqIds : getPromo(r)
    \/ \E r \in ReqIds : createMovie(r)
    \/ \E r \in ReqIds : update(r)
    \/ \E r \in ReqIds : deleteById(r)
    \/ \E r \in ReqIds : getToWatchList(r)
    \/ \E r \in ReqIds : addToToWatchList_exists(r)
    \/ \E r \in ReqIds : addToToWatchList_add(r)
    \/ \E r \in ReqIds : deleteFromToWatchList_exists(r)
    \/ \E r \in ReqIds : deleteFromToWatchList_delete(r)
    \/ \E r \in ReqIds : getComments(r)
    \/ \E r \in ReqIds : createComment(r)

Spec == Init /\ [][Next]_vars
UserSpec == UserInit /\ [][UserNext]_vars

(***************************************************************************)
(* Properties of the user service                                          *)
(***************************************************************************)
UsersWithEmail(email) == {u \in users : u.email = email}
Returned(c) == ucalls[c].pc = "done" /\ ucalls[c].outcome \in {"found", "created"}
PasswordOutOfRange(password) == Len(password) < 6 \/ Len(password) > 12

\* the step in which call c runs UserService.create (directly or from findOrCreate)
RunsCreate(c) ==
    \/ ucalls[c].pc = "idle" /\ ucalls'[c].op = "create"
    \/ ucalls[c].pc = "create" /\ ucalls'[c].pc = "done"

\* C1: a UserService.create whose dto.password is shorter than 6 or longer
\* than 12 characters fails with setPassword's error, before userModel.create,
\* and leaves the user store unchanged.
C1_ShortOrLongPasswordFailsBeforePersistence ==
    [][\A c \in CallIds :
          (RunsCreate(c) /\ PasswordOutOfRange(ucalls'[c].dto.password))
              => /\ ucalls'[c].outcome = "error"
                 /\ ucalls'[c].err = "password"
                 /\ users' = users]_vars

C1_Witness ==
    \E c, d \in CallIds :
        /\ ucalls[c].pc = "done" /\ ucalls[c].op = "create"
        /\ Len(ucalls[c].dto.password) > 12 /\ ucalls[c].outcome = "error"
        /\ ucalls[d].pc = "done" /\ ucalls[d].op = "create"
        /\ Len(ucalls[d].dto.password) < 6 /\ ucalls[d].outcome = "error"

\* two findOrCreate calls with the same email, c2 invoked after c1 completed
InSequence(c1, c2) ==
    /\ c1 # c2
    /\ ucalls[c1].op = "findOrCreate" /\ ucalls[c1].pc = "done"
    /\ ucalls[c2].op = "findOrCreate" /\ ucalls[c2].pc = "done"
    /\ ucalls[c1].dto.email = ucalls[c2].dto.email
    /\ c1 \in ucalls[c2].prior

\* C2 as stated: two findOrCreate calls in sequence with the same email both
\* return the same stored user, and exactly one user with that email is stored.
C2_FindOrCreateTwiceSameUser ==
    \A c1, c2 \in CallIds :
        InSequence(c1, c2)
            => /\ Returned(c1) /\ Returned(c2)
               /\ ucalls[c1].user = ucalls[c2].user
               /\ ucalls[c2].user \in users
               /\ Cardinality(UsersWithEmail(ucalls[c2].dto.email)) = 1

\* C2 amended: when the first of two sequential findOrCreate calls with the
\* same email returns a user, the second finds and returns that same stored
\* user without creating, and exactly one user with that email is stored.
C2_FindOrCreateTwiceAfterSuccess ==
    \A c1, c2 \in CallIds :
        (InSequence(c1, c2) /\ Returned(c1))
            => /\ ucalls[c2].outcome = "found"
               /\ ucalls[c1].user = ucalls[c2].user
               /\ ucalls[c2].user \in users
               /\ Cardinality(UsersWithEmail(ucalls[c2].dto.email)) = 1

C2_Witness ==
    \E c1, c2 \in CallIds :
        /\ InSequence(c1, c2)
        /\ ucalls[c1].outcome = "created"
        /\ ucalls[c2].outcome = "found"

\* C6: every user document persisted by create / findOrCreate carries
\* createSHA256(raw password, salt) in its password field, never the raw
\* password the constructor copied from the dto.
C6_StoredPasswordIsSaltedHash ==
    \A c \in CallIds :
        ucalls[c].outcome = "created"
            => /\ ucalls[c].user \in users
               /\ ucalls[c].user.password = createSHA256(ucalls[c].dto.password, ucalls[c].salt)
               /\ ucalls[c].user.password # ucalls[c].dto.password
               /\ ucalls[c].user.password \notin Passwords

C6_Witness ==
    \E c1, c2 \in CallIds :
        /\ ucalls[c1].op = "create" /\ ucalls[c1].outcome = "created"
        /\ ucalls[c2].op = "findOrCreate" /\ ucalls[c2].outcome = "created"

\* two findOrCreate calls with the same email whose lookups both ran before
\* either call completed
Concurrent(c1, c2) ==
    /\ c1 # c2
    /\ ucalls[c1].op = "findOrCreate" /\ ucalls[c1].pc = "done"
    /\ ucalls[c2].op = "findOrCreate" /\ ucalls[c2].pc = "done"
    /\ ucalls[c1].dto.email = ucalls[c2].dto.email
    /\ c1 \notin ucalls[c2].prior
    /\ c2 \notin ucalls[c1].prior

\* a dto that UserService.create accepts on an empty store
Acceptable(dto) == ~PasswordOutOfRange(dto.password) /\ dto.name # ""

\* C10: two concurrent findOrCreate calls with the same email (and dtos that
\* pass validation) both return the same stored user, and exactly one user
\* with that email is stored.
C10_ConcurrentFindOrCreateSameUser ==
    \A c1, c2 \in CallIds :
        (Concurrent(c1, c2) /\ Acceptable(ucalls[c1].dto) /\ Acceptable(ucalls[c2].dto))
            => /\ Returned(c1) /\ Returned(c2)
               /\ ucalls[c1].user = ucalls[c2].user
               /\ Cardinality(UsersWithEmail(ucalls[c1].dto.email)) = 1

(***************************************************************************)
(* Properties of the request pipeline                                      *)
(***************************************************************************)
Active == {r \in ReqIds : reqs[r].pc # "idle"}
Answered == {r \in ReqIds : reqs[r].pc = "done"}
HandlerOf(r) == Routes[reqs[r].route].handler
MiddlewaresOf(r) == Routes[reqs[r].route].middlewares
HandlerRan(r) == Contains(reqs[r].ran, HandlerOf(r))
NoDuplicates(list) == \A i, j \in 1..Len(list) : list[i] = list[j] => i = j
ToWatchHandlers == {"addToToWatchList", "deleteFromToWatchList"}

C4_MissingMovieIs404FromMovieController ==
    \A r \in Answered :
        (HandlerOf(r) = "getById" /\ reqs[r].id # 0 /\ ~exists(movies, reqs[r].id))
            => /\ reqs[r].status = 404
               /\ reqs[r].component = "MovieController"

\* C4 amended: GET /:id with a well-formed id of no stored movie is answered
\* 404; the error comes from the document-existence middleware, ahead of
\* getById, and names "MovieController" only when getById itself raised it.
C4_MissingMovieIs404 ==
    \A r \in Answered :
        (HandlerOf(r) = "getById" /\ reqs[r].id # 0 /\ ~exists(movies, reqs[r].id))
            => /\ reqs[r].status = 404
               /\ IF HandlerRan(r)
                  THEN reqs[r].failed = "" /\ reqs[r].component = "MovieController"
                  ELSE /\ reqs[r].failed = "movieExistsMiddleware"
                       /\ reqs[r].component = "DocumentExistsMiddleware"
                       /\ reqs[r].calls = <<>>

C4_Witness ==
    \E r \in Answered :
        /\ HandlerOf(r) = "getById"
        /\ reqs[r].id # 0
        /\ ~exists(movies, reqs[r].id)
        /\ reqs[r].failed = "movieExistsMiddleware"
        /\ reqs[r].status = 404

\* C5 as stated: POST /:id/comments with the id of no stored movie is
\* answered 404 and commentService.create is not called for it.
C5_CommentOnMissingMovieIs404 ==
    \A r \in Answered :
        (HandlerOf(r) = "createComment" /\ reqs[r].id \in MovieIds
                                        /\ ~exists(movies, reqs[r].id))
            => /\ reqs[r].status = 404
               /\ reqs[r].calls = <<>>

\* C5 amended: POST /:id/comments that passed authorization, id and DTO
\* validation and whose id the existence check finds no movie for is answered
\* 404 there; createComment does not run, commentService.create is not called.
C5_CommentOnMissingMovieStopsAtExistenceCheck ==
    \A r \in Active :
        (HandlerOf(r) = "createComment" /\ reqs[r].found = "no")
            => /\ reqs[r].pc = "done"
               /\ reqs[r].status = 404
               /\ reqs[r].failed = "movieExistsMiddleware"
               /\ ~HandlerRan(r)
               /\ reqs[r].calls = <<>>

C5_Witness ==
    \E r \in Answered :
        /\ HandlerOf(r) = "createComment"
        /\ reqs[r].user \in UserIds /\ reqs[r].dtoValid
        /\ reqs[r].found = "no"
        /\ reqs[r].status = 404
        /\ comments = <<>>

\* C7: the middlewares of a route run in the order the route lists them, the
\* handler only after all of them called through; once one fails nothing more
\* of the route runs for the request, and no middleware runs twice.
C7_MiddlewaresInOrderThenHandler ==
    \A r \in Active :
        LET mws == MiddlewaresOf(r)
            ran == reqs[r].ran
        IN  /\ Len(ran) <= Len(mws) + 1
            /\ \A k \in 1..Len(ran) :
                  ran[k] = IF k <= Len(mws) THEN mws[k] ELSE HandlerOf(r)
            /\ NoDuplicates(ran)
            /\ HandlerRan(r) => reqs[r].failed = ""
            /\ reqs[r].calls # <<>> => HandlerRan(r)
            /\ reqs[r].failed # ""
                  => /\ reqs[r].pc = "done"
                     /\ ran[Len(ran)] = reqs[r].failed
                     /\ reqs[r].status \in {400, 401, 404}

\* the third of four middlewares failed after two called through
C7_Witness ==
    \E r \in Answered :
        /\ HandlerOf(r) = "createComment"
        /\ reqs[r].failed = "validateCommentDtoMiddleware"
        /\ reqs[r].ran = <<"authorizationMiddleware", "validateObjectIdMiddleware",
                            "validateCommentDtoMiddleware">>

\* C8: POST and DELETE /to-watch by an authorized user answer 404 without
\* calling the to-watch service when body.movieId is of no existing movie,
\* and call the to-watch service and answer 204 when the movie exists.
C8_ToWatchRequiresExistingMovie ==
    \A r \in Answered :
        (HandlerOf(r) \in ToWatchHandlers /\ HandlerRan(r))
            => IF reqs[r].found = "yes"
               THEN reqs[r].status = 204 /\ Len(reqs[r].calls) = 2
               ELSE reqs[r].status = 404 /\ reqs[r].calls = <<"movieService.exists">>

\* C9 as stated: a handler calls exactly one service method per request and
\* ends it with 200, 201, 204 or 404.
C9_OneServiceCallPerHandler ==
    \A r \in Answered :
        HandlerRan(r)
            => /\ Len(reqs[r].calls) = 1
               /\ reqs[r].status \in {200, 201, 204, 404}

\* C9 amended: a handler ends its request with 200, 201, 204 or 404 and
\* calls exactly one service method, except addToToWatchList and
\* deleteFromToWatchList, which call movieService.exists and then, unless
\* they answer 404, one to-watch service method.
C9_ServiceCallsPerHandler ==
    \A r \in Answered :
        HandlerRan(r)
            => /\ reqs[r].status \in {200, 201, 204, 404}
               /\ HandlerOf(r) \notin ToWatchHandlers => Len(reqs[r].calls) = 1
               /\ HandlerOf(r) = "addToToWatchList"
                     => \/ reqs[r].calls = <<"movieService.exists">> /\ reqs[r].status = 404
                        \/ /\ reqs[r].calls = <<"movieService.exists", "toWatchService.addToToWatch">>
                           /\ reqs[r].status = 204
               /\ HandlerOf(r) = "deleteFromToWatchList"
                     => \/ reqs[r].calls = <<"movieService.exists">> /\ reqs[r].status = 404
                        \/ /\ reqs[r].calls = <<"movieService.exists", "toWatchService.deleteFromToWatch">>
                           /\ reqs[r].status = 204

C9_Witness ==
    \E r \in Answered :
        /\ HandlerOf(r) = "deleteFromToWatchList"
        /\ Len(reqs[r].calls) = 2
        /\ reqs[r].status = 204
        /\ toWatch[reqs[r].user] = <<>>
====
